---- MODULE Spec2Model ----
(***************************************************************************)
(* CrabFetch configuration manager (src/src/config_manager.rs): parse,     *)
(* find_file_in_config_dir, generate_config_file, together with the file   *)
(* system and the environment variables they read.                         *)
(*                                                                         *)
(* Strings the code only compares are TLA+ strings.  Strings the code      *)
(* takes apart (paths, the module override) are sequences of tokens: the   *)
(* separator "/" , the comma "," and the extensions are tokens of their    *)
(* own, so ends_with, tilde expansion, parent and split are computed on    *)
(* the sequence.                                                           *)
(***************************************************************************)
EXTENDS Integers, Sequences, FiniteSets, TLC

\* env: the environment variables; fs: the file system; last: the call made
\* last (Idle when its result was taken); result, io: what that call returned
\* and the file-system accesses it made; written: the path the latest
\* successful generation wrote.
VARIABLES env, fs, last, result, io, written

vars == <<env, fs, last, result, io, written>>

None == <<"None">>

\* ------------------------------------------------------------------------
\* Values of the configuration tree (config::Value): a string, a boolean,
\* an integer or an array of strings.
VStr(x) == [t |-> "str", s |-> <<x>>, n |-> 0]

VBool(b) == [t |-> "bool", s |-> <<>>, n |-> IF b THEN 1 ELSE 0]

VInt(i) == [t |-> "int", s |-> <<>>, n |-> i]

VArr(a) == [t |-> "arr", s |-> a, n |-> 0]

\* One key of the tree with its value; a top-level key has section "".
E(sec, key, val) == [k |-> <<sec, key>>, v |-> val]

\* U+2015 HORIZONTAL BAR, the underline character (one character).
HBar == "-"

\* The module list registered as the default of "modules".
DefaultModules ==
    << "hostname", "underline:16", "cpu", "gpu", "memory", "swap", "mounts",
       "host", "displays", "os", "packages", "desktop", "terminal", "shell",
       "editor", "uptime", "locale", "player", "initsys", "processes",
       "battery", "localip", "space", "colors", "bright_colors" >>

\* builder.set_default(...) calls of parse, in the order of the code.
DefaultEntries ==
    << E("", "modules", VArr(DefaultModules)),
       E("", "unknown_as_text", VBool(FALSE)),
       E("", "separator", VStr(" > ")),
       E("", "title_color", VStr("bright_magenta")),
       E("", "title_bold", VBool(TRUE)),
       E("", "title_italic", VBool(FALSE)),
       E("", "decimal_places", VInt(2)),
       E("", "inline_values", VBool(FALSE)),
       E("", "underline_character", VStr(HBar)),
       E("", "color_character", VStr("   ")),
       E("", "color_margin", VInt(0)),
       E("", "color_use_background", VBool(TRUE)),
       E("", "use_os_color", VBool(TRUE)),
       E("", "segment_top", VStr("{color-white}[======------{color-brightmagenta} {name} {color-white}------======]")),
       E("", "segment_bottom", VStr("{color-white}[======------{color-brightmagenta} {name_sized_gap} {color-white}------======]")),
       E("", "progress_left_border", VStr("[")),
       E("", "progress_right_border", VStr("]")),
       E("", "progress_progress", VStr("=")),
       E("", "progress_empty", VStr(" ")),
       E("", "progress_target_length", VInt(20)),
       E("", "use_ibis", VBool(FALSE)),
       E("", "use_version_checksums", VBool(FALSE)),
       E("", "suppress_errors", VBool(TRUE)),
       E("", "percentage_color_thresholds", VArr(<<"75:brightgreen", "85:brightyellow", "90:brightred">>)),
       E("ascii", "display", VBool(TRUE)),
       E("ascii", "colors", VArr(<<"bright_magenta">>)),
       E("ascii", "margin", VInt(4)),
       E("ascii", "side", VStr("left")),
       E("hostname", "title", VStr("")),
       E("hostname", "format", VStr("{color-title}{username}{color-white}@{color-title}{hostname}")),
       E("cpu", "title", VStr("CPU")),
       E("cpu", "format", VStr("{name} ({core_count}c {thread_count}t) @ {max_clock_ghz} GHz")),
       E("cpu", "remove_trailing_processor", VBool(TRUE)),
       E("gpu", "amd_accuracy", VBool(TRUE)),
       E("gpu", "ignore_disabled_gpus", VBool(TRUE)),
       E("gpu", "title", VStr("GPU")),
       E("gpu", "format", VStr("{vendor} {model} ({vram})")),
       E("memory", "title", VStr("Memory")),
       E("memory", "format", VStr("{used} / {max} ({percent})")),
       E("swap", "title", VStr("Swap")),
       E("swap", "format", VStr("{used} / {total} ({percent})")),
       E("mounts", "title", VStr("Disk ({mount})")),
       E("mounts", "format", VStr("{space_used} used of {space_total} ({percent}) [{filesystem}]")),
       E("mounts", "ignore", VArr(<<"">>)),
       E("host", "title", VStr("Host")),
       E("host", "format", VStr("{host} ({chassis})")),
       E("host", "newline_chassis", VBool(FALSE)),
       E("host", "chassis_title", VStr("Chassis")),
       E("host", "chassis_format", VStr("{chassis}")),
       E("displays", "title", VStr("Display ({make} {model})")),
       E("displays", "format", VStr("{width}x{height} @ {refresh_rate}Hz ({name})")),
       E("displays", "scale_size", VBool(FALSE)),
       E("os", "title", VStr("Operating System")),
       E("os", "format", VStr("{distro} ({kernel})")),
       E("os", "newline_kernel", VBool(FALSE)),
       E("os", "kernel_title", VStr("Kernel")),
       E("os", "kernel_format", VStr("Linux {kernel}")),
       E("packages", "title", VStr("Packages")),
       E("packages", "format", VStr("{count} ({manager})")),
       E("packages", "ignore", VArr(<<>>)),
       E("desktop", "title", VStr("Desktop")),
       E("desktop", "format", VStr("{desktop} ({display_type})")),
       E("terminal", "title", VStr("Terminal")),
       E("terminal", "format", VStr("{name} {version}")),
       E("shell", "title", VStr("Shell")),
       E("shell", "format", VStr("{name} {version}")),
       E("shell", "show_default_shell", VStr("false")),
       E("uptime", "title", VStr("Uptime")),
       E("battery", "title", VStr("Battery {index}")),
       E("battery", "format", VStr("{percentage}%")),
       E("editor", "title", VStr("Editor")),
       E("editor", "format", VStr("{name} {version}")),
       E("editor", "fancy", VBool(TRUE)),
       E("locale", "title", VStr("Locale")),
       E("locale", "format", VStr("{language} ({encoding})")),
       E("player", "title", VStr("Player ({player})")),
       E("player", "format", VStr("{track} by {track_artists} ({album}) [{status}]")),
       E("player", "ignore", VArr(<<>>)),
       E("initsys", "title", VStr("Init System")),
       E("initsys", "format", VStr("{name} {version}")),
       E("processes", "title", VStr("Total Processes")),
       E("datetime", "title", VStr("Date/Time")),
       E("datetime", "format", VStr("%H:%M:%S on %e %B %G")),
       E("localip", "title", VStr("Local IP ({interface})")),
       E("localip", "format", VStr("{addr}")) >>

\* The key/value pairs of the TOML text DEFAULT_CONFIG_CONTENTS, in the order
\* of the text (its comments and blank lines carry no keys).
DEFAULT_CONFIG_CONTENTS ==
    << E("", "modules", VArr(DefaultModules)),
       E("", "unknown_as_text", VBool(FALSE)),
       E("", "separator", VStr(" > ")),
       E("", "title_color", VStr("bright_magenta")),
       E("", "title_bold", VBool(TRUE)),
       E("", "title_italic", VBool(FALSE)),
       E("", "decimal_places", VInt(2)),
       E("", "inline_values", VBool(FALSE)),
       E("", "underline_character", VStr(HBar)),
       E("", "color_character", VStr("   ")),
       E("", "color_margin", VInt(0)),
       E("", "color_use_background", VBool(TRUE)),
       E("", "use_os_color", VBool(TRUE)),
       E("", "segment_top", VStr("{color-white}[======------{color-brightmagenta} {name} {color-white}------======]")),
       E("", "segment_bottom", VStr("{color-white}[======------{color-brightmagenta} {name_sized_gap} {color-white}------======]")),
       E("", "progress_left_border", VStr("[")),
       E("", "progress_right_border", VStr("]")),
       E("", "progress_progress", VStr("=")),
       E("", "progress_empty", VStr(" ")),
       E("", "progress_target_length", VInt(20)),
       E("", "use_ibis", VBool(FALSE)),
       E("", "use_version_checksums", VBool(FALSE)),
       E("", "suppress_errors", VBool(TRUE)),
       E("", "percentage_color_thresholds", VArr(<<"75:brightgreen", "85:brightyellow", "90:brightred">>)),
       E("ascii", "display", VBool(TRUE)),
       E("ascii", "colors", VArr(<<"bright_magenta">>)),
       E("ascii", "margin", VInt(4)),
       E("ascii", "side", VStr("left")),
       E("hostname", "title", VStr("")),
       E("hostname", "format", VStr("{color-title}{username}{color-white}@{color-title}{hostname}")),
       E("cpu", "title", VStr("CPU")),
       E("cpu", "format", VStr("{name} {arch} ({core_count}c {thread_count}t) @ {max_clock_ghz} GHz")),
       E("cpu", "remove_trailing_processor", VBool(TRUE)),
       E("gpu", "amd_accuracy", VBool(TRUE)),
       E("gpu", "ignore_disabled_gpus", VBool(TRUE)),
       E("gpu", "title", VStr("GPU")),
       E("gpu", "format", VStr("{vendor} {model} ({vram})")),
       E("memory", "title", VStr("Memory")),
       E("memory", "format", VStr("{used} / {max} ({percent})")),
       E("swap", "title", VStr("Swap")),
       E("swap", "format", VStr("{used} / {total} ({percent})")),
       E("mounts", "title", VStr("Disk ({mount})")),
       E("mounts", "format", VStr("{space_used} used of {space_total} ({percent}) [{filesystem}]")),
       E("mounts", "ignore", VArr(<<>>)),
       E("host", "title", VStr("Host")),
       E("host", "format", VStr("{host} ({chassis})")),
       E("host", "newline_chassis", VBool(FALSE)),
       E("host", "chassis_title", VStr("Chassis")),
       E("host", "chassis_format", VStr("{chassis}")),
       E("displays", "title", VStr("Display ({make} {model})")),
       E("displays", "format", VStr("{width}x{height} @ {refresh_rate}Hz ({name})")),
       E("displays", "scale_size", VBool(FALSE)),
       E("os", "title", VStr("Operating System")),
       E("os", "format", VStr("{distro} ({kernel})")),
       E("os", "newline_kernel", VBool(FALSE)),
       E("os", "kernel_title", VStr("Kernel")),
       E("os", "kernel_format", VStr("Linux {kernel}")),
       E("packages", "title", VStr("Packages")),
       E("packages", "format", VStr("{count} ({manager})")),
       E("packages", "ignore", VArr(<<>>)),
       E("desktop", "title", VStr("Desktop")),
       E("desktop", "format", VStr("{desktop} ({display_type})")),
       E("terminal", "title", VStr("Terminal")),
       E("terminal", "format", VStr("{name} {version}")),
       E("shell", "title", VStr("Shell")),
       E("shell", "format", VStr("{name} {version}")),
       E("shell", "show_default_shell", VBool(FALSE)),
       E("uptime", "title", VStr("Uptime")),
       E("editor", "title", VStr("Editor")),
       E("editor", "format", VStr("{name} {version}")),
       E("editor", "fancy", VBool(TRUE)),
       E("locale", "title", VStr("Locale")),
       E("locale", "format", VStr("{language} ({encoding})")),
       E("player", "title", VStr("Player ({player})")),
       E("player", "format", VStr("{track} by {track_artists} ({album}) [{status}]")),
       E("player", "ignore", VArr(<<>>)),
       E("battery", "title", VStr("Battery {index}")),
       E("battery", "format", VStr("{percentage}%")),
       E("initsys", "title", VStr("Init System")),
       E("initsys", "format", VStr("{name} {version}")),
       E("processes", "title", VStr("Total Processes")),
       E("datetime", "title", VStr("Date Time")),
       E("datetime", "format", VStr("%H:%M:%S on %e %B %G")),
       E("localip", "title", VStr("Local IP ({interface})")),
       E("localip", "format", VStr("{addr}")) >>

\* ------------------------------------------------------------------------
\* The typed tree the merged values are deserialized into.  A field type is
\* "str" (String), "bool", "uint" (u32, u8), "char", "arr" (Vec<String>) or
\* "color" (CrabFetchColor).
F(sec, key, ty) == [k |-> <<sec, key>>, ty |-> ty]

\* struct Configuration: its scalar fields.
ConfigurationFields ==
    << F("", "modules", "arr"),
       F("", "unknown_as_text", "bool"),
       F("", "separator", "str"),
       F("", "title_color", "color"),
       F("", "title_bold", "bool"),
       F("", "title_italic", "bool"),
       F("", "decimal_places", "uint"),
       F("", "inline_values", "bool"),
       F("", "underline_character", "char"),
       F("", "color_character", "str"),
       F("", "color_margin", "uint"),
       F("", "color_use_background", "bool"),
       F("", "use_os_color", "bool"),
       F("", "segment_top", "str"),
       F("", "segment_bottom", "str"),
       F("", "progress_left_border", "str"),
       F("", "progress_right_border", "str"),
       F("", "progress_progress", "str"),
       F("", "progress_empty", "str"),
       F("", "progress_target_length", "uint"),
       F("", "percentage_color_thresholds", "arr"),
       F("", "use_ibis", "bool"),
       F("", "use_version_checksums", "bool"),
       F("", "suppress_errors", "bool") >>

\* struct Configuration: its sections, one per module (player included: the
\* "player" feature is on in the default build).
ConfigurationSections ==
    { "ascii", "hostname", "cpu", "gpu", "memory", "swap", "mounts", "host",
      "displays", "os", "packages", "desktop", "terminal", "shell", "uptime",
      "battery", "locale", "player", "editor", "initsys", "processes",
      "datetime", "localip" }

\* The fields of the section structs (AsciiConfiguration, CPUConfiguration,
\* ...), which live in the modules' own files: every section mirrors the
\* section of the configuration document, each field with the type of the
\* document's value.
SectionFields ==
    << F("ascii", "display", "bool"),
       F("ascii", "colors", "arr"),
       F("ascii", "margin", "uint"),
       F("ascii", "side", "str"),
       F("hostname", "title", "str"),
       F("hostname", "format", "str"),
       F("cpu", "title", "str"),
       F("cpu", "format", "str"),
       F("cpu", "remove_trailing_processor", "bool"),
       F("gpu", "amd_accuracy", "bool"),
       F("gpu", "ignore_disabled_gpus", "bool"),
       F("gpu", "title", "str"),
       F("gpu", "format", "str"),
       F("memory", "title", "str"),
       F("memory", "format", "str"),
       F("swap", "title", "str"),
       F("swap", "format", "str"),
       F("mounts", "title", "str"),
       F("mounts", "format", "str"),
       F("mounts", "ignore", "arr"),
       F("host", "title", "str"),
       F("host", "format", "str"),
       F("host", "newline_chassis", "bool"),
       F("host", "chassis_title", "str"),
       F("host", "chassis_format", "str"),
       F("displays", "title", "str"),
       F("displays", "format", "str"),
       F("displays", "scale_size", "bool"),
       F("os", "title", "str"),
       F("os", "format", "str"),
       F("os", "newline_kernel", "bool"),
       F("os", "kernel_title", "str"),
       F("os", "kernel_format", "str"),
       F("packages", "title", "str"),
       F("packages", "format", "str"),
       F("packages", "ignore", "arr"),
       F("desktop", "title", "str"),
       F("desktop", "format", "str"),
       F("terminal", "title", "str"),
       F("terminal", "format", "str"),
       F("shell", "title", "str"),
       F("shell", "format", "str"),
       F("shell", "show_default_shell", "bool"),
       F("uptime", "title", "str"),
       F("editor", "title", "str"),
       F("editor", "format", "str"),
       F("editor", "fancy", "bool"),
       F("locale", "title", "str"),
       F("locale", "format", "str"),
       F("player", "title", "str"),
       F("player", "format", "str"),
       F("player", "ignore", "arr"),
       F("battery", "title", "str"),
       F("battery", "format", "str"),
       F("initsys", "title", "str"),
       F("initsys", "format", "str"),
       F("processes", "title", "str"),
       F("datetime", "title", "str"),
       F("datetime", "format", "str"),
       F("localip", "title", "str"),
       F("localip", "format", "str") >>

\* Every field of Configuration with its type.
Schema ==
    LET all == ConfigurationFields \o
               SelectSeq(SectionFields, LAMBDA f : f.k[1] \in ConfigurationSections)
    IN  [k \in {all[i].k : i \in DOMAIN all} |->
            all[CHOOSE i \in DOMAIN all : all[i].k = k].ty]

\* The colour names CrabFetchColor accepts (listed in the document's comment
\* on title_color).
BaseColors == {"black", "red", "green", "yellow", "blue", "magenta", "cyan", "white"}

ColorNames == BaseColors \cup {"bright_" \o c : c \in BaseColors}

\* ------------------------------------------------------------------------
\* Conversions of config::Value on deserialization.
Digit == <<"0", "1", "2", "3", "4", "5", "6", "7", "8", "9">>

\* i64::to_string, for the integers the documents hold.
RECURSIVE IntToStr(_)
IntToStr(i) == IF i < 10 THEN Digit[i + 1]
               ELSE IntToStr(i \div 10) \o Digit[(i % 10) + 1]

MaxInt == 99

\* str::parse::<i64>: the number a string spells, None when it spells none.
StrToInt(x) ==
    IF \E i \in 0..MaxInt : IntToStr(i) = x
    THEN CHOOSE i \in 0..MaxInt : IntToStr(i) = x
    ELSE -1

TrueWords == {"1", "true", "on", "yes"}

FalseWords == {"0", "false", "off", "no"}

\* Whether value v converts to a field of type ty.
Coercible(v, ty) ==
    CASE ty = "bool"  -> \/ v.t \in {"bool", "int"}
                         \/ v.t = "str" /\ v.s[1] \in TrueWords \cup FalseWords
      [] ty = "uint"  -> \/ v.t \in {"bool", "int"}
                         \/ v.t = "str" /\ StrToInt(v.s[1]) >= 0
      [] ty = "str"   -> v.t \in {"str", "bool", "int"}
      [] ty = "char"  -> v.t = "str" /\ Len(v.s[1]) = 1
      [] ty = "color" -> v.t = "str" /\ v.s[1] \in ColorNames
      [] ty = "arr"   -> v.t = "arr"

\* The value of a field of type ty deserialized from v (Coercible(v, ty)).
Coerce(v, ty) ==
    CASE ty = "bool"  -> IF v.t = "str" THEN VBool(v.s[1] \in TrueWords)
                         ELSE VBool(v.n # 0)
      [] ty = "uint"  -> IF v.t = "str" THEN VInt(StrToInt(v.s[1])) ELSE VInt(v.n)
      [] ty = "str"   -> IF v.t = "bool" THEN VStr(IF v.n = 1 THEN "true" ELSE "false")
                         ELSE IF v.t = "int" THEN VStr(IntToStr(v.n))
                         ELSE v
      [] ty \in {"char", "color", "arr"} -> v

\* ------------------------------------------------------------------------
\* The tree of the builder: a function from keys to values.
Keys(entries) == {entries[i].k : i \in DOMAIN entries}

\* The table a sequence of assignments leaves: the last assignment of a key
\* stands.
TableOf(entries) ==
    [k \in Keys(entries) |->
        entries[CHOOSE i \in DOMAIN entries :
                    /\ entries[i].k = k
                    /\ \A j \in DOMAIN entries : entries[j].k = k => j <= i].v]

EmptyTable == TableOf(<<>>)

\* The keys of base that setting the keys of over removes: a scalar named
\* like a section over supplies, and the keys of a section over replaces by
\* a scalar.
Clobbered(base, over) ==
    {k \in DOMAIN base :
        \/ k[1] = "" /\ \E o \in DOMAIN over : o[1] = k[2]
        \/ k[1] # "" /\ <<"", k[1]>> \in DOMAIN over}

\* Mutant of Merge: a section over names replaces the section of base as a
\* whole.
MergeSectionLevel(base, over) ==
    [k \in {b \in DOMAIN base \ Clobbered(base, over) :
                \A o \in DOMAIN over : o[1] = "" \/ o[1] # b[1]}
            \cup DOMAIN over |->
        IF k \in DOMAIN over THEN over[k] ELSE base[k]]

\* over laid on base, key by key (config merges tables recursively).
Merge(base, over) ==
    [k \in (DOMAIN base \ Clobbered(base, over)) \cup DOMAIN over |->
        IF k \in DOMAIN over THEN over[k] ELSE base[k]]

\* Mutant of Defaults: the default of uptime.title is not registered.
Defaults_NoUptimeTitle ==
    TableOf(SelectSeq(DefaultEntries, LAMBDA x : x.k # <<"uptime", "title">>))

\* The defaults registered by parse.
Defaults == TableOf(DefaultEntries)

\* Config::try_deserialize::<Configuration>().
Deserialize(tree) ==
    IF \A k \in DOMAIN Schema : k \in DOMAIN tree /\ Coercible(tree[k], Schema[k])
    THEN [ok |-> TRUE, config |-> [k \in DOMAIN Schema |-> Coerce(tree[k], Schema[k])]]
    ELSE [ok |-> FALSE, config |-> EmptyTable]

\* ------------------------------------------------------------------------
\* Paths.  A path is a sequence of tokens; "/" separates its components.
TOML == ".toml"

\* Mutant of ends_with: the suffix is looked for anywhere in the string.
ends_with_Contains(p, suffix) == \E i \in DOMAIN p : p[i] = suffix

\* str::ends_with(suffix), suffix one token.
ends_with(p, suffix) == Len(p) > 0 /\ p[Len(p)] = suffix

\* dirs::home_dir(): $HOME when set.
home_dir(e) == e.HOME

\* shellexpand::tilde: a leading "~" that is the whole path or is followed by
\* "/" becomes the home directory, when there is one.
tilde(p, e) ==
    IF /\ Len(p) >= 1
       /\ p[1] = "~"
       /\ (Len(p) = 1 \/ p[2] = "/")
       /\ home_dir(e) # None
    THEN home_dir(e) \o Tail(p)
    ELSE p

\* Path::parent: the path without its last component.
parent(p) ==
    LET seps == {i \in DOMAIN p : p[i] = "/"}
    IN  IF seps = {} THEN <<>>
        ELSE LET i == CHOOSE j \in seps : \A l \in seps : l <= j
             IN  IF i = 1 THEN <<"/">> ELSE SubSeq(p, 1, i - 1)

\* ------------------------------------------------------------------------
\* The file system: a function from the paths that were created to what is
\* there.  The directories above an entry exist with it.
FileEntry(doc, readable) == [kind |-> "file", doc |-> doc, readable |-> readable]

DirEntry == [kind |-> "dir", doc |-> "", readable |-> TRUE]

\* p is a directory above q.
IsAncestor(p, q) ==
    /\ Len(p) < Len(q)
    /\ SubSeq(q, 1, Len(p)) = p
    /\ (q[Len(p) + 1] = "/" \/ p = <<"/">>)

\* Mutant of Exists: a path counts as present without a look at the file
\* system.
Exists_Unchecked(f, p) == TRUE

\* Path::exists.
Exists(f, p) ==
    \/ p \in DOMAIN f
    \/ p = <<"/">>
    \/ \E q \in DOMAIN f : IsAncestor(p, q)

\* Path::is_file.
IsFile(f, p) == p \in DOMAIN f /\ f[p].kind = "file"

\* Some directory above p is a regular file, so nothing can be made at p.
UnderFile(f, p) == \E q \in DOMAIN f : IsFile(f, q) /\ IsAncestor(q, p)

\* One access to the file system, as logged in io.
Access(op, p) == [op |-> op, path |-> p]

\* ------------------------------------------------------------------------
\* Mutant of DefaultDocument: the underline character is written twice.
DefaultDocument_BadChar ==
    [i \in DOMAIN DEFAULT_CONFIG_CONTENTS |->
        IF DEFAULT_CONFIG_CONTENTS[i].k = <<"", "underline_character">>
        THEN E("", "underline_character", VStr(HBar \o HBar))
        ELSE DEFAULT_CONFIG_CONTENTS[i]]

\* The bytes generate_config_file writes: DEFAULT_CONFIG_CONTENTS.as_bytes().
DefaultDocument == DEFAULT_CONFIG_CONTENTS

\* The documents a configuration file may hold: whether the text is TOML and
\* the keys it assigns.
DocNames == {"default", "empty", "partial", "coerced", "garbage", "bad_type", "scalar_section"}

Doc(name) ==
    CASE name = "default" -> [valid |-> TRUE, entries |-> DefaultDocument]
      [] name = "empty" -> [valid |-> TRUE, entries |-> <<>>]
      [] name = "partial" ->
            [valid |-> TRUE,
             entries |-> << E("", "modules", VArr(<<"os">>)),
                            E("cpu", "title", VStr("Processor")) >>]
      [] name = "coerced" ->
            [valid |-> TRUE,
             entries |-> << E("", "title_bold", VStr("no")),
                            E("", "decimal_places", VStr("3")),
                            E("", "separator", VInt(7)),
                            E("", "nonsense", VStr("ignored")) >>]
      [] name = "garbage" -> [valid |-> FALSE, entries |-> <<>>]
      [] name = "bad_type" ->
            [valid |-> TRUE,
             entries |-> << E("", "decimal_places", VStr("two")) >>]
      [] name = "scalar_section" ->
            [valid |-> TRUE,
             entries |-> << E("", "cpu", VStr("x")) >>]

\* ------------------------------------------------------------------------
\* The inputs.
MaxFiles == 1

HomeValues == {None, <<"/", "h">>, <<"/", "h", TOML>>}

ConfigHomeValues == {None, <<"/", "x">>}

\* The explicit paths a caller passes: "/a.toml", "/a.toml.bak", "~" and
\* "~/b.toml".
ExplicitPaths ==
    { <<"/", "a", TOML>>, <<"/", "a", TOML, ".bak">>, <<"~">>, <<"~", "/", "b", TOML>> }

\* The module overrides a caller passes: "cpu,gpu", "cpu,cpu" and "".
ModuleOverrides == { <<"cpu", ",", "gpu">>, <<"cpu", ",", "cpu">>, <<>> }

\* ------------------------------------------------------------------------
\* Results.  parse returns Ok(Configuration) or Err(ConfigurationError);
\* generate_config_file returns () or panics.  path is config_path_str as
\* parse leaves it.
NoResult ==
    [kind |-> "None", config |-> EmptyTable, config_file |-> None, message |-> "",
     path |-> None]

Ok(c, config_path_str) ==
    [kind |-> "Ok", config |-> c, config_file |-> None, message |-> "",
     path |-> config_path_str]

Done == [NoResult EXCEPT !.kind = "Done"]

Panic(msg) == [NoResult EXCEPT !.kind = "Panic", !.message = msg]

Unknown == <<"Unknown">>

\* Mutant of ConfigurationError_new: the path is dropped.
ConfigurationError_new_NoPath(file_path, message) ==
    [kind |-> "Err", config |-> EmptyTable, config_file |-> Unknown,
     message |-> message, path |-> file_path]

\* Err(ConfigurationError::new(file_path, message)).
ConfigurationError_new(file_path, message) ==
    [kind |-> "Err", config |-> EmptyTable,
     config_file |-> IF file_path = None THEN Unknown ELSE file_path,
     message |-> message, path |-> file_path]

MsgExtension == "Config path MUST end with '.toml'"

MsgNotFound == "Unable to find config file."

MsgBuild == "<builder.build() error>"

MsgDeserialize == "<try_deserialize error>"

\* ------------------------------------------------------------------------
\* find_file_in_config_dir.
ConfigFileName == <<"config", TOML>>

\* Mutant of search_paths: the home directory is tried first.
search_paths_HomeFirst(name, e) ==
    (IF e.HOME # None
     THEN << e.HOME \o <<"/", ".config", "/", "CrabFetch", "/">> \o name >>
     ELSE <<>>)
    \o
    (IF e.XDG_CONFIG_HOME # None
     THEN << e.XDG_CONFIG_HOME \o <<"/", "CrabFetch", "/">> \o name >>
     ELSE <<>>)

\* The paths searched: $XDG_CONFIG_HOME/CrabFetch/<name> and then
\* $HOME/.config/CrabFetch/<name>, each when its variable is set.
search_paths(name, e) ==
    (IF e.XDG_CONFIG_HOME # None
     THEN << e.XDG_CONFIG_HOME \o <<"/", "CrabFetch", "/">> \o name >>
     ELSE <<>>)
    \o
    (IF e.HOME # None
     THEN << e.HOME \o <<"/", ".config", "/", "CrabFetch", "/">> \o name >>
     ELSE <<>>)

\* util::find_first_pathbuf_exists: the first of the paths that exists, with
\* the existence checks made on the way.
find_first_pathbuf_exists(paths, f) ==
    LET hits == {i \in DOMAIN paths : Exists(f, paths[i])}
    IN  IF hits = {}
        THEN [path |-> None,
              io |-> [i \in DOMAIN paths |-> Access("exists", paths[i])]]
        ELSE LET i == CHOOSE j \in hits : \A l \in hits : j <= l
             IN  [path |-> paths[i],
                  io |-> [j \in 1..i |-> Access("exists", paths[j])]]

find_file_in_config_dir(name, e, f) ==
    find_first_pathbuf_exists(search_paths(name, e), f)

\* ------------------------------------------------------------------------
\* parse.
RECURSIVE concat(_)
\* The string a sequence of tokens spells.
concat(tokens) == IF tokens = <<>> THEN "" ELSE Head(tokens) \o concat(Tail(tokens))

RECURSIVE split(_, _)
\* str::split(sep).collect(): the pieces between the separators, empty
\* pieces included.
split(s, sep) ==
    LET seps == {i \in DOMAIN s : s[i] = sep}
    IN  IF seps = {} THEN << concat(s) >>
        ELSE LET i == CHOOSE j \in seps : \A l \in seps : j <= l
             IN  << concat(SubSeq(s, 1, i - 1)) >> \o split(SubSeq(s, i + 1, Len(s)), sep)

\* No document: no file source was added, or the source found no file.
NoDoc == "<none>"

\* What config::File::with_name(p).required(false) contributes at build: the
\* document of the regular file at p, an error when that file cannot be read
\* or is not TOML; nothing when no regular file is at p.
FileSource(f, p) ==
    IF IsFile(f, p)
    THEN [ok |-> f[p].readable /\ Doc(f[p].doc).valid, doc |-> f[p].doc]
    ELSE [ok |-> TRUE, doc |-> NoDoc]

\* The table of a document.
DocTable(d) == IF d = NoDoc THEN EmptyTable ELSE TableOf(Doc(d).entries)

\* builder.set_override("modules", module_override.split(',')).
module_overrides(module_override) ==
    IF module_override = None THEN EmptyTable
    ELSE TableOf(<< E("", "modules", VArr(split(module_override, ","))) >>)

\* Mutant of builder_build: the layers are merged in the order they were
\* registered with the builder (source, defaults, overrides).
builder_build_RegistrationOrder(defaults, source, overrides) ==
    Merge(Merge(source, defaults), overrides)

\* Mutant of builder_build: the override is laid under the file.
builder_build_OverrideUnderFile(defaults, source, overrides) ==
    Merge(Merge(defaults, overrides), source)

\* ConfigBuilder::build: the defaults, then the sources, then the overrides,
\* in whatever order they were registered.
builder_build(defaults, source, overrides) ==
    Merge(Merge(defaults, source), overrides)

\* builder.build() followed by try_deserialize, for every document and
\* override (tabulated: the outcome depends on nothing else).
Resolved ==
    LET table == [d \in DocNames \cup {NoDoc}, m \in ModuleOverrides \cup {None} |->
                    Deserialize(builder_build(Defaults, DocTable(d), module_overrides(m)))]
    IN  IF table = <<>> THEN <<>> ELSE table

\* The end of parse: build the tree and deserialize it.
build_and_deserialize(config_path_str, module_override, f) ==
    LET source == IF config_path_str = None
                  THEN [ok |-> TRUE, doc |-> NoDoc]
                  ELSE FileSource(f, config_path_str)
    IN  IF ~source.ok
        THEN ConfigurationError_new(config_path_str, MsgBuild)
        ELSE LET d == Resolved[source.doc, module_override]
             IN  IF d.ok THEN Ok(d.config, config_path_str)
                 ELSE ConfigurationError_new(config_path_str, MsgDeserialize)

\* Mutant of parse: ignore_file is not consulted.
parse_IgnoreFileUnused(location_override, module_override, ignore_file, e, f) ==
    IF location_override # None
    THEN LET config_path_str == tilde(location_override, e)
         IN  IF ~ends_with(config_path_str, TOML)
             THEN [result |-> ConfigurationError_new(config_path_str, MsgExtension),
                   io |-> <<>>]
             ELSE IF ~Exists(f, config_path_str)
             THEN [result |-> ConfigurationError_new(config_path_str, MsgNotFound),
                   io |-> << Access("exists", config_path_str) >>]
             ELSE [result |-> build_and_deserialize(config_path_str, module_override, f),
                   io |-> << Access("exists", config_path_str),
                             Access("read", config_path_str) >>]
    ELSE LET found == find_file_in_config_dir(ConfigFileName, e, f)
         IN  [result |-> build_and_deserialize(found.path, module_override, f),
              io |-> found.io \o (IF found.path = None THEN <<>>
                                  ELSE << Access("read", found.path) >>)]

\* parse(location_override, module_override, ignore_file) in environment e
\* and file system f: its result and its file-system accesses.
parse(location_override, module_override, ignore_file, e, f) ==
    IF ignore_file
    THEN [result |-> build_and_deserialize(None, module_override, f), io |-> <<>>]
    ELSE IF location_override # None
    THEN LET config_path_str == tilde(location_override, e)
         IN  IF ~ends_with(config_path_str, TOML)
             THEN [result |-> ConfigurationError_new(config_path_str, MsgExtension),
                   io |-> <<>>]
             ELSE IF ~Exists(f, config_path_str)
             THEN [result |-> ConfigurationError_new(config_path_str, MsgNotFound),
                   io |-> << Access("exists", config_path_str) >>]
             ELSE [result |-> build_and_deserialize(config_path_str, module_override, f),
                   io |-> << Access("exists", config_path_str),
                             Access("read", config_path_str) >>]
    ELSE LET found == find_file_in_config_dir(ConfigFileName, e, f)
         IN  [result |-> build_and_deserialize(found.path, module_override, f),
              io |-> found.io \o (IF found.path = None THEN <<>>
                                  ELSE << Access("read", found.path) >>)]

\* ------------------------------------------------------------------------
\* generate_config_file.
\* Mutant of generate_path: the extension of an explicit path is not tested.
generate_path_NoExtensionCheck(location_override, e) ==
    IF location_override # None
    THEN [ok |-> TRUE, path |-> tilde(location_override, e), message |-> ""]
    ELSE IF e.XDG_CONFIG_HOME # None
    THEN [ok |-> TRUE, message |-> "",
          path |-> e.XDG_CONFIG_HOME \o <<"/", "CrabFetch", "/", "config", TOML>>]
    ELSE IF e.HOME # None
    THEN [ok |-> TRUE, message |-> "",
          path |-> e.HOME \o <<"/", ".config", "/", "CrabFetch", "/", "config", TOML>>]
    ELSE [ok |-> FALSE, path |-> None,
          message |-> "Unable to find suitable config folder"]

\* Mutant of generate_path: with no explicit path the home directory is
\* preferred to the config home.
generate_path_HomeFirst(location_override, e) ==
    IF location_override # None
    THEN LET path == tilde(location_override, e)
         IN  [ok |-> ends_with(path, TOML), path |-> path,
              message |-> "Config path must end with '.toml'"]
    ELSE IF e.HOME # None
    THEN [ok |-> TRUE, message |-> "",
          path |-> e.HOME \o <<"/", ".config", "/", "CrabFetch", "/", "config", TOML>>]
    ELSE IF e.XDG_CONFIG_HOME # None
    THEN [ok |-> TRUE, message |-> "",
          path |-> e.XDG_CONFIG_HOME \o <<"/", "CrabFetch", "/", "config", TOML>>]
    ELSE [ok |-> FALSE, path |-> None,
          message |-> "Unable to find suitable config folder"]

\* The path generation writes to; ok is false when it panics before it has
\* one.
generate_path(location_override, e) ==
    IF location_override # None
    THEN LET path == tilde(location_override, e)
         IN  [ok |-> ends_with(path, TOML), path |-> path,
              message |-> "Config path must end with '.toml'"]
    ELSE IF e.XDG_CONFIG_HOME # None
    THEN [ok |-> TRUE, message |-> "",
          path |-> e.XDG_CONFIG_HOME \o <<"/", "CrabFetch", "/", "config", TOML>>]
    ELSE IF e.HOME # None
    THEN [ok |-> TRUE, message |-> "",
          path |-> e.HOME \o <<"/", ".config", "/", "CrabFetch", "/", "config", TOML>>]
    ELSE [ok |-> FALSE, path |-> None,
          message |-> "Unable to find suitable config folder"]

\* f with an entry put at p.
Put(f, p, entry) == [q \in DOMAIN f \cup {p} |-> IF q = p THEN entry ELSE f[q]]

\* What a failed write_all may leave in the file: nothing, or a cut text.
PartialDocs == {"empty", "garbage"}

\* Mutant of path_exists: the check is left out.
path_exists_Unchecked(f, path) == FALSE

\* config_path.exists(), the check generation makes before it touches the
\* file system.
path_exists(f, path) == Exists(f, path)

\* generate_config_file(location_override): the set of its possible outcomes
\* [result, fs, io, written].  create_dir_all, File::create and write_all may
\* each fail; create_dir_all succeeds on a directory that exists and fails
\* below a regular file; File::create fails on a directory.  A directory
\* that was made gets an entry of its own only while nothing is in it.
generate_config_file(location_override, e, f) ==
    LET target == generate_path(location_override, e)
        path == target.path
        dir == parent(path)
        io1 == << Access("exists", path) >>
        io2 == io1 \o << Access("create_dir_all", dir) >>
        io3 == io2 \o << Access("create", path) >>
        io4 == io3 \o << Access("write", path) >>
        dirExists == dir = <<>> \/ (Exists(f, dir) /\ ~IsFile(f, dir))
        dirFails == UnderFile(f, path) \/ IsFile(f, dir)
        f1 == IF dirExists THEN f ELSE Put(f, dir, DirEntry)
        isDir == Exists(f, path) /\ ~IsFile(f, path)
        Out(r, g, a, w) == [result |-> r, fs |-> g, io |-> a, written |-> w]
    IN  IF ~target.ok
        THEN {Out(Panic(target.message), f, <<>>, None)}
        ELSE IF path_exists(f, path)
        THEN {Out(Panic("Path already exists"), f, io1, None)}
        ELSE
            (IF dirExists THEN {}
             ELSE {Out(Panic("Unable to create directory"), f, io2, None)})
            \cup
            (IF dirFails THEN {}
             ELSE {Out(Panic("Unable to create file"), f1, io3, None)}
                  \cup
                  (IF isDir THEN {}
                   ELSE {Out(Panic("Unable to write to file"),
                             Put(f, path, FileEntry(d, TRUE)), io4, None) :
                                d \in PartialDocs}
                        \cup
                        {Out(Done, Put(f, path, FileEntry("default", TRUE)), io4, path)}))

\* ------------------------------------------------------------------------
\* The paths at which files and directories appear: the explicit paths with
\* the extension, and the search locations.
FsPaths(e) ==
    {p \in {tilde(q, e) : q \in ExplicitPaths} : ends_with(p, TOML)}
    \cup {search_paths(ConfigFileName, e)[i] : i \in DOMAIN search_paths(ConfigFileName, e)}

\* What appears there.
FsEntries ==
    {FileEntry(d, TRUE) : d \in DocNames \ {"empty"}}
    \cup {FileEntry("default", FALSE), DirEntry}

\* One call: the operation, its arguments and the file system it ran on.
Call(op, loc, mod, ign, f) ==
    [op |-> op, loc |-> loc, mod |-> mod, ign |-> ign, fs |-> f]

Idle == Call("idle", None, None, FALSE, EmptyTable)

\* ------------------------------------------------------------------------
Init ==
    /\ env \in [XDG_CONFIG_HOME : ConfigHomeValues, HOME : HomeValues]
    /\ fs = EmptyTable
    /\ last = Idle
    /\ result = NoResult
    /\ io = <<>>
    /\ written = None

\* A file or a directory appears (made by the user or another program).
EnvCreate(p, entry) ==
    /\ last = Idle
    /\ Cardinality(DOMAIN fs) < MaxFiles
    /\ ~Exists(fs, p)
    /\ ~UnderFile(fs, p)
    /\ fs' = Put(fs, p, entry)
    /\ UNCHANGED <<env, last, result, io, written>>

\* A call of parse.
Parse(loc, mod, ign) ==
    LET r == parse(loc, mod, ign, env, fs)
    IN  /\ last = Idle
        /\ result' = r.result
        /\ io' = r.io
        /\ last' = Call("parse", loc, mod, ign, fs)
        /\ UNCHANGED <<env, fs, written>>

\* A call of generate_config_file.
GenerateConfigFile(loc) ==
    \E o \in generate_config_file(loc, env, fs) :
        /\ last = Idle
        /\ Cardinality(DOMAIN o.fs) <= MaxFiles
        /\ result' = o.result
        /\ io' = o.io
        /\ fs' = o.fs
        /\ written' = IF o.written = None THEN written ELSE o.written
        /\ last' = Call("generate", loc, None, FALSE, fs)
        /\ UNCHANGED env

\* The caller takes the result; the next call can be made.
Return ==
    /\ last # Idle
    /\ last' = Idle
    /\ result' = NoResult
    /\ io' = <<>>
    /\ UNCHANGED <<env, fs, written>>

Next ==
    \/ \E p \in FsPaths(env), entry \in FsEntries : EnvCreate(p, entry)
    \/ \E loc \in ExplicitPaths \cup {None}, mod \in ModuleOverrides \cup {None},
          ign \in BOOLEAN : Parse(loc, mod, ign)
    \/ \E loc \in ExplicitPaths \cup {None} : GenerateConfigFile(loc)
    \/ Return

Spec == Init /\ [][Next]_vars

\* ------------------------------------------------------------------------
\* check_for_ascii_override.
AsciiFileName == <<"ascii">>

\* Option<String> as a result.
OptionNone == [NoResult EXCEPT !.kind = "OptionNone"]

Some(r) == [NoResult EXCEPT !.kind = "Some", !.message = r]

\* The texts an ascii file may hold.
AsciiTexts == {"art", ""}

\* util::file_read: the text of a regular file that can be read.
file_read(f, p) ==
    IF IsFile(f, p) /\ f[p].readable
    THEN [ok |-> TRUE, text |-> f[p].doc]
    ELSE [ok |-> FALSE, text |-> ""]

\* Mutant of check_for_ascii_override: a failed read is unwrapped.
check_for_ascii_override_Unwrap(e, f) ==
    LET found == find_file_in_config_dir(AsciiFileName, e, f)
        r == file_read(f, found.path)
    IN  IF found.path = None
        THEN [result |-> OptionNone, io |-> found.io]
        ELSE [result |-> IF r.ok THEN Some(r.text) ELSE Panic("unwrap"),
              io |-> found.io \o << Access("exists", found.path),
                                    Access("read", found.path) >>]

\* check_for_ascii_override() in environment e and file system f.
check_for_ascii_override(e, f) ==
    LET found == find_file_in_config_dir(AsciiFileName, e, f)
        r == file_read(f, found.path)
    IN  IF found.path = None
        THEN [result |-> OptionNone, io |-> found.io]
        ELSE IF ~Exists(f, found.path)
        THEN [result |-> OptionNone,
              io |-> found.io \o << Access("exists", found.path) >>]
        ELSE [result |-> IF r.ok THEN Some(r.text) ELSE OptionNone,
              io |-> found.io \o << Access("exists", found.path),
                                    Access("read", found.path) >>]

\* ------------------------------------------------------------------------
\* The search locations with files in place when the program starts.
SearchFiles(e) ==
    {search_paths(n, e)[i] :
        n \in {ConfigFileName, AsciiFileName}, i \in DOMAIN search_paths(ConfigFileName, e)}

\* What a search location may hold.
SearchEntries(p) ==
    IF p[Len(p)] = "ascii"
    THEN {FileEntry(x, TRUE) : x \in AsciiTexts} \cup {FileEntry("art", FALSE), DirEntry}
    ELSE {FileEntry(d, TRUE) : d \in {"partial", "coerced", "garbage", "bad_type"}}
         \cup {FileEntry("default", FALSE), DirEntry}

SearchOverrides == {None, <<"cpu", ",", "gpu">>}

SearchInit ==
    /\ env \in [XDG_CONFIG_HOME : ConfigHomeValues, HOME : HomeValues]
    /\ \E S \in SUBSET SearchFiles(env) :
          fs \in {g \in [S -> UNION {SearchEntries(p) : p \in S}] :
                     \A p \in S : g[p] \in SearchEntries(p)}
    /\ last = Idle
    /\ result = NoResult
    /\ io = <<>>
    /\ written = None

\* A call of check_for_ascii_override.
CheckForAsciiOverride ==
    LET r == check_for_ascii_override(env, fs)
    IN  /\ last = Idle
        /\ result' = r.result
        /\ io' = r.io
        /\ last' = Call("ascii", None, None, FALSE, fs)
        /\ UNCHANGED <<env, fs, written>>

\* A call of generate_config_file with no explicit path.
GenerateAtSearchLocation ==
    \E o \in generate_config_file(None, env, fs) :
        /\ last = Idle
        /\ result' = o.result
        /\ io' = o.io
        /\ fs' = o.fs
        /\ written' = IF o.written = None THEN written ELSE o.written
        /\ last' = Call("generate", None, None, FALSE, fs)
        /\ UNCHANGED env

SearchNext ==
    \/ \E mod \in SearchOverrides, ign \in BOOLEAN : Parse(None, mod, ign)
    \/ CheckForAsciiOverride
    \/ GenerateAtSearchLocation
    \/ Return

SearchSpec == SearchInit /\ [][SearchNext]_vars

\* ------------------------------------------------------------------------
\* displays.rs.  Strings are sequences of characters here.
NAME == <<"{", "n", "a", "m", "e", "}">>

WIDTH == <<"{", "w", "i", "d", "t", "h", "}">>

HEIGHT == <<"{", "h", "e", "i", "g", "h", "t", "}">>

REFRESH_RATE == <<"{", "r", "e", "f", "r", "e", "s", "h", "_", "r", "a", "t", "e", "}">>

\* s[from..): the characters of s from position from on.
Skip(s, n) == SubSeq(s, n + 1, Len(s))

starts_with(s, pat) == Len(s) >= Len(pat) /\ SubSeq(s, 1, Len(pat)) = pat

RECURSIVE replace(_, _, _)
\* str::replace(from, to): every match of from, found left to right without
\* overlap in s, becomes to (from is not empty).
replace(s, from, to) ==
    IF Len(s) < Len(from) THEN s
    ELSE IF starts_with(s, from) THEN to \o replace(Skip(s, Len(from)), from, to)
    ELSE << s[1] >> \o replace(Tail(s), from, to)

RECURSIVE to_string(_)
\* u64::to_string, u32::to_string.
to_string(n) ==
    IF n < 10 THEN << Digit[n + 1] >>
    ELSE to_string(n \div 10) \o << Digit[(n % 10) + 1] >>

DisplayInfo(name, width, height, refresh_rate) ==
    [name |-> name, width |-> width, height |-> height, refresh_rate |-> refresh_rate]

\* DisplayInfo::new.
DisplayInfo_new == DisplayInfo(<<>>, 0, 0, 0)

\* DisplayInfo::format(&self, format, _).
format(self, fmt) ==
    replace(replace(replace(replace(fmt, NAME, self.name),
                            WIDTH, to_string(self.width)),
                    HEIGHT, to_string(self.height)),
            REFRESH_RATE, to_string(self.refresh_rate))

\* str::contains(pat).
contains(s, pat) == \E i \in 0..(Len(s) - Len(pat)) : starts_with(Skip(s, i), pat)

\* str::find(c): the number of characters before the first c, -1 for None.
find(s, c) ==
    IF \E i \in DOMAIN s : s[i] = c
    THEN (CHOOSE i \in DOMAIN s : s[i] = c /\ \A j \in 1..(i - 1) : s[j] # c) - 1
    ELSE -1

RECURSIVE split_str(_, _)
\* str::split(c).collect(): the pieces between the separators, empty pieces
\* included.
split_str(s, c) ==
    LET i == find(s, c)
    IN  IF i = -1 THEN << s >>
        ELSE << SubSeq(s, 1, i) >> \o split_str(Skip(s, i + 1), c)

RECURSIVE digits_value(_)
digits_value(s) ==
    IF s = <<>> THEN 0
    ELSE 10 * digits_value(SubSeq(s, 1, Len(s) - 1))
         + (CHOOSE d \in 0..9 : Digit[d + 1] = s[Len(s)])

\* str::parse::<u64>: the number the digits spell, -1 for Err (the texts
\* here are short and hold no sign).
parse_u64(s) ==
    IF s # <<>> /\ \A i \in DOMAIN s : \E d \in 0..9 : Digit[d + 1] = s[i]
    THEN digits_value(s)
    ELSE -1

CONNECTED == <<"c", "o", "n", "n", "e", "c", "t", "e", "d">>

\* The body of the loop of parse_xrandr for one line: the line is skipped,
\* gives a display, or panics.
parse_line(line) ==
    LET values == split_str(line, " ")
        plus == find(values[3], "+")
        resolution_str == split_str(SubSeq(values[3], 1, plus), "x")
        width == parse_u64(resolution_str[1])
        height == parse_u64(resolution_str[2])
    IN  IF ~contains(line, CONNECTED) THEN [kind |-> "skip"]
        ELSE IF Len(values) < 3 THEN [kind |-> "panic", message |-> "index out of bounds"]
        ELSE IF plus = -1 THEN [kind |-> "panic", message |-> "unwrap on None"]
        ELSE IF width = -1 THEN [kind |-> "panic", message |-> "unwrap on Err"]
        ELSE IF Len(resolution_str) < 2
        THEN [kind |-> "panic", message |-> "index out of bounds"]
        ELSE IF height = -1 THEN [kind |-> "panic", message |-> "unwrap on Err"]
        ELSE [kind |-> "display",
              display |-> [DisplayInfo_new EXCEPT !.width = width, !.height = height,
                                                  !.name = values[1]]]

RECURSIVE parse_lines(_)
\* The loop of parse_xrandr over the lines: the displays pushed, or the
\* first panic.
parse_lines(lines) ==
    IF lines = <<>> THEN [kind |-> "ok", displays |-> <<>>]
    ELSE LET first == parse_line(Head(lines))
             rest == parse_lines(Tail(lines))
         IN  IF first.kind = "panic" THEN [kind |-> "panic", message |-> first.message]
             ELSE IF rest.kind = "panic" THEN rest
             ELSE IF first.kind = "skip" THEN rest
             ELSE [kind |-> "ok", displays |-> << first.display >> \o rest.displays]

\* What running the command gave: it could not be started (NotFound or
\* another error), or it ran and wrote stdout, which is UTF-8 or not.
CommandFailed(kind) == [kind |-> kind, stdout |-> <<>>, utf8 |-> TRUE]

CommandOutput(stdout, utf8) == [kind |-> "Ok", stdout |-> stdout, utf8 |-> utf8]

\* parse_xrandr(), given what Command::new("xrandr").output() gave.
parse_xrandr(output) ==
    IF output.kind # "Ok" THEN OptionNone
    ELSE IF ~output.utf8 THEN OptionNone
    ELSE LET r == parse_lines(split_str(output.stdout, "\n"))
         IN  IF r.kind = "panic" THEN Panic(r.message) ELSE Some(r.displays)

\* Vec<DisplayInfo> as a result.
Vec(displays) == [NoResult EXCEPT !.kind = "Vec", !.message = displays]

\* get_displays(), given $XDG_SESSION_TYPE (None when it cannot be read) and
\* what the command gave.
get_displays(session_type, output) ==
    IF session_type \in {<<"x11">>, <<"wayland">>}
    THEN LET r == parse_xrandr(output)
         IN  IF r.kind = "Panic" THEN r
             ELSE IF r.kind = "Some" THEN Vec(r.message)
             ELSE Vec(<<>>)
    ELSE Vec(<<>>)

\* ------------------------------------------------------------------------
\* The inputs of displays.rs.
\* The lines xrandr may write.
XrandrLines ==
    { <<"A", " ", "c", "o", "n", "n", "e", "c", "t", "e", "d", " ", "8", "0", "x", "6", "0", "+", "0", "+", "0">>,
      <<"B", " ", "c", "o", "n", "n", "e", "c", "t", "e", "d", " ", "6", "4", "x", "4", "8", "+", "8", "0", "+", "0">>,
      <<"A", " ", "d", "i", "s", "c", "o", "n", "n", "e", "c", "t", "e", "d", " ", "(", "n", "o", "r", "m", "a", "l">>,
      <<"A", " ", "c", "o", "n", "n", "e", "c", "t", "e", "d", " ", "p", "r", "i", "m", "a", "r", "y", " ", "8", "0", "x", "6", "0", "+", "0", "+", "0">>,
      <<"A", " ", "c", "o", "n", "n", "e", "c", "t", "e", "d">>,
      <<"A", " ", "c", "o", "n", "n", "e", "c", "t", "e", "d", " ", "x", "6", "0", "+", "0", "+", "0">>,
      <<"A", " ", "c", "o", "n", "n", "e", "c", "t", "e", "d", " ", "8", "0", "+", "0">>,
      <<"A", " ", "c", "o", "n", "n", "e", "c", "t", "e", "d", " ", "8", "0", "x", "6", "0">>,
      <<"S", "c", "r", "e", "e", "n", " ", "0", ":", " ", "m", "i", "n", "i", "m", "u", "m">>,
      <<" ", " ", " ", "8", "0", "x", "6", "0", " ", "6", "0", ".", "0", "0", "*", "+">>,
      <<>> }

\* The most lines in an output.
MaxLines == 2

RECURSIVE join(_, _)
\* The lines with sep after each but the last.
join(lines, sep) ==
    IF lines = <<>> THEN <<>>
    ELSE IF Len(lines) = 1 THEN lines[1]
    ELSE lines[1] \o << sep >> \o join(Tail(lines), sep)

XrandrTexts ==
    {join(ls, "\n") : ls \in UNION {[1..n -> XrandrLines] : n \in 1..MaxLines}}

XrandrOutputs ==
    {CommandFailed("NotFound"), CommandFailed("PermissionDenied"),
     CommandOutput(<<"?">>, FALSE)}
    \cup {CommandOutput(x, TRUE) : x \in XrandrTexts}

SessionTypes == {None, <<"x11">>, <<"wayland">>, <<"tty">>}

\* The pieces templates are made of.
TemplatePieces ==
    { NAME, WIDTH, HEIGHT, REFRESH_RATE,
      <<"{", "n", "o", "p", "e", "}">>, <<" ", "x">>, <<"{", "w", "i", "d">>, <<"t", "h", "}">> }

\* The most pieces in a template.
MaxPieces == 2

RECURSIVE pieces_text(_)
\* The text the pieces spell, one after the other.
pieces_text(ps) == IF ps = <<>> THEN <<>> ELSE Head(ps) \o pieces_text(Tail(ps))

Templates ==
    {pieces_text(ps) : ps \in UNION {[1..n -> TemplatePieces] : n \in 0..MaxPieces}}

DisplayNames == { <<"A">>, <<"{", "w", "i", "d", "t", "h", "}">>, <<"t", "h", "}">>, <<>> }

Displays ==
    {DisplayInfo(n, w, h, 0) : n \in DisplayNames, w \in {0, 80}, h \in {60}}

DisplaysInit ==
    /\ env = [XDG_CONFIG_HOME |-> None, HOME |-> None]
    /\ fs = EmptyTable
    /\ last = Idle
    /\ result = NoResult
    /\ io = <<>>
    /\ written = None

\* A call of DisplayInfo::format.
Format(self, fmt) ==
    /\ last = Idle
    /\ last' = [op |-> "format", self |-> self, format |-> fmt]
    /\ result' = [NoResult EXCEPT !.kind = "String", !.message = format(self, fmt)]
    /\ UNCHANGED <<env, fs, io, written>>

\* A call of parse_xrandr.
ParseXrandr(output) ==
    /\ last = Idle
    /\ last' = [op |-> "parse_xrandr", output |-> output]
    /\ result' = parse_xrandr(output)
    /\ UNCHANGED <<env, fs, io, written>>

\* A call of get_displays.
GetDisplays(session_type, output) ==
    /\ last = Idle
    /\ last' = [op |-> "get_displays", session_type |-> session_type, output |-> output]
    /\ result' = get_displays(session_type, output)
    /\ UNCHANGED <<env, fs, io, written>>

DisplaysNext ==
    \/ \E self \in Displays, fmt \in Templates : Format(self, fmt)
    \/ \E output \in XrandrOutputs : ParseXrandr(output)
    \/ \E session_type \in SessionTypes, output \in XrandrOutputs :
          GetDisplays(session_type, output)
    \/ Return

DisplaysSpec == DisplaysInit /\ [][DisplaysNext]_vars

\* ========================================================================
\* The claims.  Each is a predicate on the state a call leaves: last holds the
\* call and the file system it ran on, result and io what it did.
IsParse == last.op = "parse"

IsGenerate == last.op = "generate"

\* The path's last token is the extension.
HasExtension(p) == p # <<>> /\ p[Len(p)] = ".toml"

\* The explicit path of the call, tilde-expanded.
ExpandedLoc == tilde(last.loc, env)

\* Nothing is at p: no entry, and no entry below it.
NothingAt(f, p) ==
    /\ p # <<"/">>
    /\ \A q \in DOMAIN f : q # p /\ ~IsAncestor(p, q)

\* The items of the module overrides, written out.
OverrideItems(m) ==
    CASE m = <<"cpu", ",", "gpu">> -> <<"cpu", "gpu">>
      [] m = <<"cpu", ",", "cpu">> -> <<"cpu", "cpu">>
      [] m = <<>> -> <<"">>

ModulesKey == <<"", "modules">>

\* The value the defaults alone give field k.
DefaultValue(k) == Coerce(Defaults[k], Schema[k])

\* The call loaded a regular file.
LoadedFile == result.path # None /\ IsFile(last.fs, result.path)

\* The table of every document (tabulated).
DocTables ==
    LET table == [d \in DocNames |-> DocTable(d)]
    IN  IF table = <<>> THEN <<>> ELSE table

LoadedTable == DocTables[last.fs[result.path].doc]

\* Every field of the configuration has a value.
EveryFieldPresent == DOMAIN result.config = DOMAIN Schema

\* C1 as stated: for every explicit path not ending in .toml, parse fails with
\* the invalid-path-shape error before any file I/O, whatever module_override
\* and ignore_file are.
C1_BadExtension_AnyIgnoreFile ==
    (IsParse /\ last.loc # None /\ ~HasExtension(last.loc))
        => (result.kind = "Err" /\ result.message = MsgExtension /\ io = <<>>)

\* C1 amended: with ignore_file false, for every explicit path whose
\* tilde-expanded form does not end in .toml, parse fails with the
\* invalid-path-shape error naming that path, before any file I/O, whatever
\* module_override is.
C1_BadExtensionFailsFast ==
    (IsParse /\ ~last.ign /\ last.loc # None /\ ~HasExtension(ExpandedLoc))
        => /\ result.kind = "Err"
           /\ result.message = MsgExtension
           /\ result.config_file = ExpandedLoc
           /\ io = <<>>

\* C1 witness: parse of "/a.toml.bak" with ignore_file false and a module
\* override failed on the extension.
C1_Witness ==
    /\ IsParse /\ ~last.ign /\ last.mod # None
    /\ last.loc = <<"/", "a", ".toml", ".bak">>
    /\ result.kind = "Err" /\ result.message = MsgExtension

\* C2: whenever a module override is supplied, the resolved module list is
\* exactly the comma-separated items of the override, in order and with
\* duplicates, whatever the file and the defaults hold.
C2_ModuleOverrideWins ==
    (IsParse /\ last.mod # None /\ result.kind = "Ok")
        => result.config[ModulesKey] = VArr(OverrideItems(last.mod))

\* C2 witness: a file with modules = ["os"] was loaded under the override
\* "cpu,gpu".
C2_Witness ==
    /\ IsParse /\ result.kind = "Ok" /\ LoadedFile
    /\ last.fs[result.path].doc = "partial"
    /\ last.mod = <<"cpu", ",", "gpu">>
    /\ result.config[ModulesKey] = VArr(<<"cpu", "gpu">>)

\* C3 as stated: in a successful parse that loaded a file, every key the file
\* supplies has the file's value and every other key its default.
C3_FileOverlaysDefaults_AnyOverride ==
    (IsParse /\ result.kind = "Ok" /\ LoadedFile)
        => \A k \in DOMAIN Schema :
              result.config[k] = IF k \in DOMAIN LoadedTable
                                 THEN Coerce(LoadedTable[k], Schema[k])
                                 ELSE DefaultValue(k)

\* C3 amended: in a successful parse that loaded a file, every key the file
\* supplies has the file's value and every other key its default, except the
\* module list when a module override is supplied, which is the override's.
C3_FileOverlaysDefaults ==
    (IsParse /\ result.kind = "Ok" /\ LoadedFile)
        => \A k \in DOMAIN Schema :
              result.config[k] = IF k = ModulesKey /\ last.mod # None
                                 THEN VArr(OverrideItems(last.mod))
                                 ELSE IF k \in DOMAIN LoadedTable
                                 THEN Coerce(LoadedTable[k], Schema[k])
                                 ELSE DefaultValue(k)

\* C3 witness: a file giving cpu.title = "Processor" and no cpu.format was
\* loaded; cpu.title is the file's and cpu.format the default.
C3_Witness ==
    /\ IsParse /\ result.kind = "Ok" /\ LoadedFile
    /\ last.fs[result.path].doc = "partial"
    /\ result.config[<<"cpu", "title">>] = VStr("Processor")
    /\ result.config[<<"cpu", "format">>] = Defaults[<<"cpu", "format">>]

\* C4: parse of the file generation wrote, with no module override, gives the
\* configuration that parse gives with no file at all.
C4_RoundTrip ==
    (IsParse /\ result.kind = "Ok" /\ last.mod = None
        /\ result.path # None /\ result.path = written)
        => result.config = Resolved[NoDoc, None].config

\* C5: with no explicit path and no file at either search location, parse
\* returns Ok and every field has its default value (the module list the
\* override's, when one is supplied).
C5_NoFileFoundDefaults ==
    (IsParse /\ last.loc = None
        /\ \A i \in DOMAIN search_paths(ConfigFileName, env) :
              NothingAt(last.fs, search_paths(ConfigFileName, env)[i]))
        => /\ result.kind = "Ok"
           /\ EveryFieldPresent
           /\ \A k \in DOMAIN Schema :
                 result.config[k] = IF k = ModulesKey /\ last.mod # None
                                    THEN VArr(OverrideItems(last.mod))
                                    ELSE DefaultValue(k)

\* C5 witness: both variables are set, both locations were probed and are
\* empty, and parse returned Ok.
C5_Witness ==
    /\ IsParse /\ last.loc = None /\ ~last.ign
    /\ env.XDG_CONFIG_HOME # None /\ env.HOME # None
    /\ Len(io) = 2
    /\ result.kind = "Ok" /\ result.path = None

\* C6 as stated: an explicit path that ends in .toml with nothing at it makes
\* parse fail with the not-found error.
C6_NotFound_AnyIgnoreFile ==
    (IsParse /\ last.loc # None /\ HasExtension(last.loc)
        /\ NothingAt(last.fs, ExpandedLoc))
        => (result.kind = "Err" /\ result.message = MsgNotFound)

\* C6 amended: with ignore_file false, an explicit path whose expanded form
\* ends in .toml and has nothing at it makes parse fail with the not-found
\* error naming that path.
C6_NotFound ==
    (IsParse /\ ~last.ign /\ last.loc # None /\ HasExtension(ExpandedLoc)
        /\ NothingAt(last.fs, ExpandedLoc))
        => /\ result.kind = "Err"
           /\ result.message = MsgNotFound
           /\ result.config_file = ExpandedLoc

\* C6 witness: parse of "~/b.toml", which does not exist, failed with the
\* not-found error although a file is at a search location.
C6_Witness ==
    /\ IsParse /\ ~last.ign /\ last.loc = <<"~", "/", "b", ".toml">>
    /\ \E i \in DOMAIN search_paths(ConfigFileName, env) :
          IsFile(last.fs, search_paths(ConfigFileName, env)[i])
    /\ result.kind = "Err" /\ result.message = MsgNotFound

\* The document is TOML, every value it gives a field converts to the field's
\* type, and it puts no scalar where a section is and no section where a
\* scalar is.
DocWellTyped(d) ==
    /\ Doc(d).valid
    /\ \A i \in DOMAIN Doc(d).entries :
          LET k == Doc(d).entries[i].k
              v == Doc(d).entries[i].v
          IN  /\ k \in DOMAIN Schema => Coercible(v, Schema[k])
              /\ ~(k[1] = "" /\ k[2] \in ConfigurationSections)
              /\ ~(k[1] # "" /\ <<"", k[1]>> \in DOMAIN Schema)

C8_GenerateAlwaysCreates ==
    (IsGenerate /\ last.loc # None /\ HasExtension(last.loc)
        /\ NothingAt(last.fs, ExpandedLoc))
        => /\ result.kind = "Done"
           /\ IsFile(fs, ExpandedLoc)
           /\ fs[ExpandedLoc] = FileEntry("default", TRUE)

\* C8 amended: when generate_config_file with an explicit path returns (it
\* panics when the directory or the file cannot be created or written), the
\* path ends in .toml, nothing was at it, a file with the default document is
\* now exactly there and nothing else changed; and a following parse with
\* that path, no module override and ignore_file false returns Ok.
C8_GenerateThenParse ==
    /\ (IsGenerate /\ last.loc # None /\ result.kind = "Done")
          => /\ HasExtension(ExpandedLoc)
             /\ NothingAt(last.fs, ExpandedLoc)
             /\ DOMAIN fs = DOMAIN last.fs \cup {ExpandedLoc}
             /\ fs[ExpandedLoc] = FileEntry("default", TRUE)
             /\ \A q \in DOMAIN last.fs : fs[q] = last.fs[q]
             /\ written = ExpandedLoc
    /\ (IsParse /\ last.loc # None /\ written = ExpandedLoc
            /\ last.mod = None /\ ~last.ign)
          => result.kind = "Ok"

\* C8 witness: parse of the path the latest generation wrote returned Ok.
C8_Witness ==
    /\ IsParse /\ last.loc # None /\ written = ExpandedLoc
    /\ last.mod = None /\ ~last.ign
    /\ result.kind = "Ok" /\ result.path = written

\* The path parse has in use when it returns.
PathInUse ==
    IF last.ign THEN None
    ELSE IF last.loc # None THEN ExpandedLoc
    ELSE LET paths == search_paths(ConfigFileName, env)
             hits == {i \in DOMAIN paths : ~NothingAt(last.fs, paths[i])}
         IN  IF hits = {} THEN None
             ELSE paths[CHOOSE i \in hits : \A j \in hits : i <= j]

\* C9: parse returns Ok or Err and never panics; an Err carries no
\* configuration and names the path in use, "Unknown" when there is none.
C9_FailuresAreErrors ==
    IsParse
        => /\ result.kind \in {"Ok", "Err"}
           /\ result.kind = "Err"
                => /\ DOMAIN result.config = {}
                   /\ result.config_file = IF PathInUse = None THEN Unknown
                                           ELSE PathInUse

\* C9 witness: the file found at a search location could not be
\* deserialized, and the error names it.
C9_Witness ==
    /\ IsParse /\ last.loc = None
    /\ result.kind = "Err" /\ result.message = MsgDeserialize
    /\ result.config_file = PathInUse
    /\ IsFile(last.fs, result.config_file)

\* The path generation is aimed at, None when there is none.
TargetPath ==
    IF last.loc # None THEN ExpandedLoc
    ELSE IF env.XDG_CONFIG_HOME # None
    THEN env.XDG_CONFIG_HOME \o <<"/", "CrabFetch", "/", "config", ".toml">>
    ELSE IF env.HOME # None
    THEN env.HOME \o <<"/", ".config", "/", "CrabFetch", "/", "config", ".toml">>
    ELSE None

\* C10: generation against a path that exists panics and changes nothing: the
\* file system is as it was and was only asked whether the path exists.
C10_GenerateOnExistingPath ==
    (IsGenerate /\ TargetPath # None /\ ~NothingAt(last.fs, TargetPath))
        => /\ result.kind = "Panic"
           /\ fs = last.fs
           /\ \A i \in DOMAIN io : io[i].op = "exists"

\* C10 witness: generation was aimed at an existing file that holds another
\* document, and panicked on the existence check.
C10_Witness ==
    /\ IsGenerate /\ TargetPath # None
    /\ IsFile(last.fs, TargetPath)
    /\ last.fs[TargetPath].doc = "partial"
    /\ result.kind = "Panic" /\ result.message = "Path already exists"
    /\ fs = last.fs

MsgGenerateExtension == "Config path must end with '.toml'"

\* C11 as stated: generation with an explicit path that does not end in .toml
\* panics, and nothing is created or written.
C11_GenerateBadExtension_AsGiven ==
    (IsGenerate /\ last.loc # None /\ ~HasExtension(last.loc))
        => (result.kind = "Panic" /\ fs = last.fs)

\* C11 amended: generation with an explicit path whose tilde-expanded form
\* does not end in .toml panics with the extension message, before any
\* file-system access: nothing is looked at, created or written.
C11_GenerateBadExtension ==
    (IsGenerate /\ last.loc # None /\ ~HasExtension(ExpandedLoc))
        => /\ result.kind = "Panic"
           /\ result.message = MsgGenerateExtension
           /\ io = <<>>
           /\ fs = last.fs
           /\ written = None \/ written \in DOMAIN last.fs

\* C11 witness: generation with "/a.toml.bak" panicked on the extension.
C11_Witness ==
    /\ IsGenerate /\ last.loc = <<"/", "a", ".toml", ".bak">>
    /\ result.kind = "Panic" /\ result.message = MsgGenerateExtension
    /\ io = <<>> /\ fs = last.fs

\* The two search locations of the file called name, written out.
ConfigHomeFile(name) == env.XDG_CONFIG_HOME \o <<"/", "CrabFetch", "/">> \o name

HomeFile(name) == env.HOME \o <<"/", ".config", "/", "CrabFetch", "/">> \o name

\* The first search location of name at which something exists, None when
\* there is none.
FirstExisting(name) ==
    IF env.XDG_CONFIG_HOME # None /\ ~NothingAt(last.fs, ConfigHomeFile(name))
    THEN ConfigHomeFile(name)
    ELSE IF env.HOME # None /\ ~NothingAt(last.fs, HomeFile(name))
    THEN HomeFile(name)
    ELSE None

\* The configuration a successful parse gives when document d is the file
\* loaded (NoDoc: no file) under module override m.
Overlay(d, m) ==
    [k \in DOMAIN Schema |->
        IF k = ModulesKey /\ m # None THEN VArr(OverrideItems(m))
        ELSE IF d # NoDoc /\ k \in DOMAIN DocTables[d]
        THEN Coerce(DocTables[d][k], Schema[k])
        ELSE DefaultValue(k)]

\* The result of parse is what the entry at path p alone determines: Ok of
\* the overlay of a readable, well-typed file, an error naming p for any
\* other file, and Ok of the defaults when p is None or a directory.
DeterminedBy(p) ==
    /\ result.path = p
    /\ IF p # None /\ IsFile(last.fs, p)
       THEN IF last.fs[p].readable /\ DocWellTyped(last.fs[p].doc)
            THEN /\ result.kind = "Ok"
                 /\ result.config = Overlay(last.fs[p].doc, last.mod)
            ELSE /\ result.kind = "Err"
                 /\ result.config_file = p
       ELSE /\ result.kind = "Ok"
            /\ result.config = Overlay(NoDoc, last.mod)

\* C12: with no explicit path (and ignore_file false) parse looks at
\* <config-home>/CrabFetch/config.toml and then at
\* <home>/.config/CrabFetch/config.toml and loads the first that exists; the
\* result is what that one alone determines, whatever is at the other.
C12_SearchOrder ==
    (IsParse /\ last.loc = None /\ ~last.ign)
        => DeterminedBy(FirstExisting(ConfigFileName))

\* C12 witness: both files exist, the config-home one giving cpu.title and
\* the home one title_bold = "no"; the config-home file was loaded and
\* title_bold has its default.
C12_Witness ==
    /\ IsParse /\ last.loc = None /\ ~last.ign
    /\ env.XDG_CONFIG_HOME # None /\ env.HOME # None
    /\ IsFile(last.fs, ConfigHomeFile(ConfigFileName))
    /\ IsFile(last.fs, HomeFile(ConfigFileName))
    /\ last.fs[ConfigHomeFile(ConfigFileName)].doc = "partial"
    /\ last.fs[HomeFile(ConfigFileName)].doc = "coerced"
    /\ result.kind = "Ok"
    /\ result.path = ConfigHomeFile(ConfigFileName)
    /\ result.config[<<"cpu", "title">>] = VStr("Processor")
    /\ result.config[<<"", "title_bold">>] = VBool(TRUE)

\* C13: with ignore_file set, parse checks and reads no path, and its result
\* is the same for every explicit path, environment and file system: Ok of
\* the defaults, with the module list the override's when one is given.
C13_IgnoreFileBypassesLookup ==
    (IsParse /\ last.ign)
        => /\ io = <<>>
           /\ result.kind = "Ok"
           /\ result.path = None
           /\ result.config = Overlay(NoDoc, last.mod)

\* C13 witness: ignore_file was set with an explicit path that lacks the
\* extension and an unparsable file at a search location, and parse
\* returned the defaults.
C13_Witness ==
    /\ IsParse /\ last.ign /\ last.mod = None
    /\ last.loc = <<"/", "a", ".toml", ".bak">>
    /\ \E i \in DOMAIN search_paths(ConfigFileName, env) :
          /\ IsFile(last.fs, search_paths(ConfigFileName, env)[i])
          /\ last.fs[search_paths(ConfigFileName, env)[i]].doc = "garbage"
    /\ result.kind = "Ok" /\ io = <<>>
    /\ result.config[<<"", "separator">>] = VStr(" > ")

IsAscii == last.op = "ascii"

\* C14: check_for_ascii_override looks at the two search locations of the
\* file "ascii": when the first that exists is a regular file that can be
\* read, the result is Some of its text, verbatim; otherwise (nothing
\* exists, or the read fails) it is None.  It never panics and changes
\* nothing.
C14_AsciiOverride ==
    IsAscii
        => LET p == FirstExisting(AsciiFileName)
           IN  /\ result.kind \in {"Some", "OptionNone"}
               /\ IF p # None /\ IsFile(last.fs, p) /\ last.fs[p].readable
                  THEN result.kind = "Some" /\ result.message = last.fs[p].doc
                  ELSE result.kind = "OptionNone"
               /\ fs = last.fs

\* C14 witness: both ascii files exist with different texts, and the text of
\* the config-home one was returned.
C14_Witness ==
    /\ IsAscii
    /\ env.XDG_CONFIG_HOME # None /\ env.HOME # None
    /\ IsFile(last.fs, ConfigHomeFile(AsciiFileName))
    /\ IsFile(last.fs, HomeFile(AsciiFileName))
    /\ last.fs[ConfigHomeFile(AsciiFileName)] = FileEntry("art", TRUE)
    /\ last.fs[HomeFile(AsciiFileName)] = FileEntry("", TRUE)
    /\ result.kind = "Some" /\ result.message = "art"

\* C17: generation with no explicit path, when it succeeds, has written the
\* default document at the first search location whose variable is set (the
\* config home before the home directory); and a following parse with no
\* explicit path and ignore_file false selects exactly the file written,
\* whatever is at the other location.
C17_GenerateWhereParseSearches ==
    /\ (IsGenerate /\ last.loc = None /\ result.kind = "Done")
          => /\ written = IF env.XDG_CONFIG_HOME # None
                          THEN ConfigHomeFile(ConfigFileName)
                          ELSE HomeFile(ConfigFileName)
             /\ NothingAt(last.fs, written)
             /\ fs[written] = FileEntry("default", TRUE)
    /\ (IsParse /\ last.loc = None /\ ~last.ign /\ written # None)
          => /\ result.path = written
             /\ IsFile(last.fs, written)

\* C17 witness: a file was at the home location, generation wrote the
\* config-home file, and the following parse selected the file written.
C17_Witness ==
    /\ IsParse /\ last.loc = None /\ ~last.ign
    /\ env.XDG_CONFIG_HOME # None /\ env.HOME # None
    /\ IsFile(last.fs, HomeFile(ConfigFileName))
    /\ last.fs[HomeFile(ConfigFileName)].doc = "partial"
    /\ written = ConfigHomeFile(ConfigFileName)
    /\ result.kind = "Ok" /\ result.path = written

IsFormat == last.op = "format"

RECURSIVE SubstituteOnce(_, _)
\* The template read once from left to right: a recognized placeholder
\* becomes the display's value, which is not read again; every other
\* character stays.
SubstituteOnce(s, d) ==
    IF s = <<>> THEN <<>>
    ELSE IF starts_with(s, NAME) THEN d.name \o SubstituteOnce(Skip(s, Len(NAME)), d)
    ELSE IF starts_with(s, WIDTH)
    THEN to_string(d.width) \o SubstituteOnce(Skip(s, Len(WIDTH)), d)
    ELSE IF starts_with(s, HEIGHT)
    THEN to_string(d.height) \o SubstituteOnce(Skip(s, Len(HEIGHT)), d)
    ELSE IF starts_with(s, REFRESH_RATE)
    THEN to_string(d.refresh_rate) \o SubstituteOnce(Skip(s, Len(REFRESH_RATE)), d)
    ELSE << s[1] >> \o SubstituteOnce(Tail(s), d)

\* C15: DisplayInfo::format replaces every occurrence of {name}, {width},
\* {height} and {refresh_rate} in the template with the display's value and
\* leaves every other text of the template, unrecognized {...} tokens
\* included, as it is.
C15_FormatReplacesPlaceholders ==
    IsFormat => result.message = SubstituteOnce(last.format, last.self)

\* Text without braces.
PlainTexts == {<<>>, <<" ", "x">>}

\* C16: the value put in for {name} is not scanned for placeholders: for a
\* template that is plain text around one {name}, the output is that text
\* around the display's name, verbatim, also when the name is "{width}".
C16_NoDoubleSubstitution ==
    IsFormat
        => \A pre \in PlainTexts, post \in PlainTexts :
              last.format = pre \o NAME \o post
                  => result.message = pre \o last.self.name \o post

IsParseXrandr == last.op = "parse_xrandr"

\* The line is one parse_xrandr can read: it holds "connected" and its
\* third field is <w>x<h>+... with w and h numbers.
Parsable(line) ==
    LET values == split_str(line, " ")
        res == split_str(SubSeq(values[3], 1, find(values[3], "+")), "x")
    IN  /\ contains(line, CONNECTED)
        /\ Len(values) >= 3
        /\ find(values[3], "+") # -1
        /\ Len(res) = 2
        /\ parse_u64(res[1]) # -1
        /\ parse_u64(res[2]) # -1

\* C18: parse_xrandr never panics on the command's output: for text output
\* it returns one display per line it can read, in order, and skips every
\* other line.
C18_XrandrNeverAborts ==
    IsParseXrandr
        => /\ result.kind # "Panic"
           /\ (last.output.kind = "Ok" /\ last.output.utf8)
                 => LET lines == SelectSeq(split_str(last.output.stdout, "\n"), Parsable)
                    IN  /\ result.kind = "Some"
                        /\ Len(result.message) = Len(lines)
                        /\ \A i \in DOMAIN lines :
                              result.message[i].name = split_str(lines[i], " ")[1]

====
